---------------------------- MODULE Spec2Model ----------------------------
(***************************************************************************)
(* Model of extractSignaturesv2.ts: the AnnotationParser (a line-oriented  *)
(* accumulator over a raw comment string) and the TypeScriptParser driver  *)
(* (file read, syntax tree walk, one FunctionMetadata per named function   *)
(* declaration).  Strings are sequences of one-character strings.          *)
(***************************************************************************)
EXTENDS Integers, Sequences, FiniteSets, TLC

VARIABLES
    \* ---- AnnotationParser ----
    options,            \* the Partial<AnnotationConfig> handed to the constructor
    comments,           \* the raw comment string handed to parse
    config,             \* this.config, set by the constructor
    lines,              \* comments.split('\n')
    idx,                \* position of the for-of loop in lines (1-based)
    currentAnnotation,  \* Null or <<partial annotation>>
    annotations,        \* the result array
    pc,                 \* control point of the AnnotationParser run
    \* ---- TypeScriptParser ----
    filePath,           \* the argument of parseFunctionSignatures
    disk,               \* what fs.readFile meets at filePath
    fileContent,        \* the string readFile resolved with
    sourceFile,         \* the ts.SourceFile (text and nodes)
    pending,            \* nodes the walk has still to visit, next first
    functions,          \* the functions array of extractFunctions
    thrown,             \* the exception in flight or finally thrown
    returned,           \* the resolved FunctionMetadata[] (as <<list>>) or Null
    tpc                 \* control point of parseFunctionSignatures

parserVars == <<options, comments, config, lines, idx, currentAnnotation, annotations, pc>>
driverVars == <<filePath, disk, fileContent, sourceFile, pending, functions, thrown, returned, tpc>>
vars == <<options, comments, config, lines, idx, currentAnnotation, annotations, pc,
          filePath, disk, fileContent, sourceFile, pending, functions, thrown, returned, tpc>>

\* null / undefined: the empty option; a present value v is <<v>>.
Null == <<>>

-----------------------------------------------------------------------------
(* Strings *)

\* what \s and String.prototype.trim treat as white space (the ASCII part)
WhiteSpace == {" ", "\t", "\n", "\r"}

RECURSIVE TrimStart(_)
TrimStart(s) ==
    IF s = <<>> THEN s
    ELSE IF Head(s) \in WhiteSpace THEN TrimStart(Tail(s)) ELSE s

RECURSIVE TrimEnd(_)
TrimEnd(s) ==
    IF s = <<>> THEN s
    ELSE IF s[Len(s)] \in WhiteSpace THEN TrimEnd(SubSeq(s, 1, Len(s) - 1)) ELSE s

\* String.prototype.trim
Trim(s) == TrimEnd(TrimStart(s))

\* .replace(/^[/*\s]+/, '')
RECURSIVE StripLeadingMarkers(_)
StripLeadingMarkers(s) ==
    IF s = <<>> THEN s
    ELSE IF Head(s) \in (WhiteSpace \cup {"/", "*"})
         THEN StripLeadingMarkers(Tail(s))
         ELSE s

\* .replace(/\s*\*\/$/, ''): the match is the closing marker at the very end of
\* the string together with the run of white space before it
StripClosingMarker(s) ==
    IF Len(s) >= 2 /\ s[Len(s) - 1] = "*" /\ s[Len(s)] = "/"
    THEN TrimEnd(SubSeq(s, 1, Len(s) - 2))
    ELSE s

\* String.prototype.startsWith
StartsWith(s, t) == Len(t) <= Len(s) /\ SubSeq(s, 1, Len(t)) = t

\* String.prototype.substring(n), 0-based n
Substring(s, n) == SubSeq(s, n + 1, Len(s))

\* String.prototype.split('\n')
RECURSIVE SplitLines(_, _)
SplitLines(s, acc) ==
    IF s = <<>> THEN <<acc>>
    ELSE IF Head(s) = "\n" THEN <<acc>> \o SplitLines(Tail(s), <<>>)
         ELSE SplitLines(Tail(s), Append(acc, Head(s)))

Split(s) == SplitLines(s, <<>>)

-----------------------------------------------------------------------------
(* AnnotationParser *)

\* a slip in the constructor: multiLineSupport || true
NewAnnotationParserOrTrue(opts) ==
    [supportedAnnotations |->
        IF opts.supportedAnnotations = Null THEN <<>> ELSE opts.supportedAnnotations[1],
     multiLineSupport |-> TRUE]

\* constructor: supportedAnnotations || [], multiLineSupport ?? true
NewAnnotationParser(opts) ==
    [supportedAnnotations |->
        IF opts.supportedAnnotations = Null THEN <<>> ELSE opts.supportedAnnotations[1],
     multiLineSupport |->
        IF opts.multiLineSupport = Null THEN TRUE ELSE opts.multiLineSupport[1]]

\* the line as parse looks at it: trim, then the two replaces
CleanLine(line) == StripClosingMarker(StripLeadingMarkers(Trim(line)))

\* Array.prototype.find over the configured tags, then "|| null": the first
\* configured tag the line starts with; the empty string stands for null (an
\* empty tag is falsy, so "|| null" and the truth test treat it as no match)
RECURSIVE FindFrom(_, _, _)
FindFrom(tags, k, line) ==
    IF k > Len(tags) THEN <<>>
    ELSE IF StartsWith(line, tags[k]) THEN tags[k]
         ELSE FindFrom(tags, k + 1, line)

\* String.prototype.includes
Includes(s, t) == \E o \in 0..(Len(s) - Len(t)) : SubSeq(s, o + 1, o + Len(t)) = t

\* a slip in findAnnotationType: line.includes(annotation)
RECURSIVE FindIncludedFrom(_, _, _)
FindIncludedFrom(tags, k, line) ==
    IF k > Len(tags) THEN <<>>
    ELSE IF Includes(line, tags[k]) THEN tags[k]
         ELSE FindIncludedFrom(tags, k + 1, line)

findAnnotationTypeIncludes(cfg, line) == FindIncludedFrom(cfg.supportedAnnotations, 1, line)

\* a slip in findAnnotationType: the last configured tag that matches
RECURSIVE FindLastFrom(_, _, _)
FindLastFrom(tags, k, line) ==
    IF k < 1 THEN <<>>
    ELSE IF StartsWith(line, tags[k]) THEN tags[k]
         ELSE FindLastFrom(tags, k - 1, line)

findAnnotationTypeLast(cfg, line) ==
    FindLastFrom(cfg.supportedAnnotations, Len(cfg.supportedAnnotations), line)

findAnnotationType(cfg, line) == FindFrom(cfg.supportedAnnotations, 1, line)

finalizeAnnotation(annotation) ==
    [type |-> annotation.type,
     content |-> Trim(annotation.content),
     isMultiLine |-> annotation.isMultiLine]

\* currentAnnotation?.type && currentAnnotation.content
HasContent(cur) == cur # Null /\ cur[1].type # <<>> /\ cur[1].content # <<>>

\* the push guarded by that test (in the loop and after it)
PushIfContent(cur, anns) ==
    IF HasContent(cur) THEN Append(anns, finalizeAnnotation(cur[1])) ELSE anns

\* the annotation a tag line opens
OpenAnnotation(annotationType, trimmedLine) ==
    [type |-> annotationType,
     content |-> Trim(Substring(trimmedLine, Len(annotationType))),
     isMultiLine |-> FALSE]

\* a slip in the continuation: the line is joined by a space
ContinueAnnotationWithSpace(annotation, trimmedLine) ==
    [type |-> annotation.type,
     content |-> annotation.content \o <<" ">> \o trimmedLine,
     isMultiLine |-> TRUE]

\* a slip in the continuation: the flag is not set
ContinueAnnotationKeepsFlag(annotation, trimmedLine) ==
    [type |-> annotation.type,
     content |-> annotation.content \o <<"\n">> \o trimmedLine,
     isMultiLine |-> annotation.isMultiLine]

\* currentAnnotation.content += '\n' + trimmedLine; isMultiLine = true
ContinueAnnotation(annotation, trimmedLine) ==
    [type |-> annotation.type,
     content |-> annotation.content \o <<"\n">> \o trimmedLine,
     isMultiLine |-> TRUE]

\* one iteration of the for-of loop: the new (currentAnnotation, annotations)
LoopBody(cfg, cur, anns, line) ==
    LET trimmedLine == CleanLine(line)
        annotationType == findAnnotationType(cfg, trimmedLine)
    IN  IF annotationType # <<>>
        THEN [cur |-> <<OpenAnnotation(annotationType, trimmedLine)>>,
              anns |-> PushIfContent(cur, anns)]
        ELSE IF cur # Null /\ cfg.multiLineSupport
             THEN [cur |-> <<ContinueAnnotation(cur[1], trimmedLine)>>, anns |-> anns]
             ELSE [cur |-> cur, anns |-> anns]

\* the whole loop, from line k on
RECURSIVE LoopFrom(_, _, _, _, _)
LoopFrom(cfg, ls, k, cur, anns) ==
    IF k > Len(ls) THEN [cur |-> cur, anns |-> anns]
    ELSE LET st == LoopBody(cfg, cur, anns, ls[k])
         IN  LoopFrom(cfg, ls, k + 1, st.cur, st.anns)

\* parse as a function of its input: what the TypeScriptParser calls
parse(cfg, cmts) ==
    LET st == LoopFrom(cfg, Split(cmts), 1, Null, <<>>)
    IN  PushIfContent(st.cur, st.anns)


-----------------------------------------------------------------------------
(* Inputs of the AnnotationParser run *)

\* longest raw comment string
MaxLen == 5

\* the characters raw comments are made of: white space, the comment
\* markers, the line break and two letters
Alphabet == {" ", "*", "/", "\n", "p", "t"}

CommentStrings == UNION {[1..n -> Alphabet] : n \in 0..MaxLen}

\* configured tag lists: one tag, two unrelated tags, and a tag with one it
\* is a prefix of, in both orders.  A tag is a non-empty marker string.
TagLists ==
    {<< <<"p">> >>,
     << <<"p">>, <<"t">> >>,
     << <<"p">>, <<"p", "t">> >>,
     << <<"p", "t">>, <<"p">> >>}

\* Partial<AnnotationConfig>, each field given or undefined: nothing given,
\* one tag list alone, and every tag list with continuation on and off
OptionSet ==
    {[supportedAnnotations |-> Null, multiLineSupport |-> Null],
     [supportedAnnotations |-> << << <<"p">> >> >>, multiLineSupport |-> Null]}
    \cup
    [supportedAnnotations : {<<tl>> : tl \in TagLists},
     multiLineSupport : {<<TRUE>>, <<FALSE>>}]

\* a configuration before any constructor ran
NoConfig == [supportedAnnotations |-> <<>>, multiLineSupport |-> TRUE]

DriverIdle ==
    /\ filePath = ""
    /\ disk = [code |-> "none", file |-> <<>>]
    /\ fileContent = <<>>
    /\ sourceFile = Null
    /\ pending = <<>>
    /\ functions = <<>>
    /\ thrown = Null
    /\ returned = Null
    /\ tpc = "idle"

InitParse ==
    /\ options \in OptionSet
    /\ comments \in CommentStrings
    /\ config = NoConfig
    /\ lines = <<>>
    /\ idx = 0
    /\ currentAnnotation = Null
    /\ annotations = <<>>
    /\ pc = "new"
    /\ DriverIdle

\* new AnnotationParser(options)
Construct ==
    /\ pc = "new"
    /\ config' = NewAnnotationParser(options)
    /\ pc' = "ready"
    /\ UNCHANGED <<options, comments, lines, idx, currentAnnotation, annotations>>
    /\ UNCHANGED driverVars

\* parse(comments), up to the loop
ParseBegin ==
    /\ pc = "ready"
    /\ lines' = Split(comments)
    /\ annotations' = <<>>
    /\ currentAnnotation' = Null
    /\ idx' = 1
    /\ pc' = "loop"
    /\ UNCHANGED <<options, comments, config>>
    /\ UNCHANGED driverVars

\* one iteration of the loop over lines
ParseLine ==
    /\ pc = "loop"
    /\ idx <= Len(lines)
    /\ LET st == LoopBody(config, currentAnnotation, annotations, lines[idx])
       IN  /\ currentAnnotation' = st.cur
           /\ annotations' = st.anns
    /\ idx' = idx + 1
    /\ UNCHANGED <<options, comments, config, lines, pc>>
    /\ UNCHANGED driverVars

\* after the loop: the last annotation, and return
ParseEnd ==
    /\ pc = "loop"
    /\ idx > Len(lines)
    /\ annotations' = PushIfContent(currentAnnotation, annotations)
    /\ pc' = "done"
    /\ UNCHANGED <<options, comments, config, lines, idx, currentAnnotation>>
    /\ UNCHANGED driverVars

NextParse == Construct \/ ParseBegin \/ ParseLine \/ ParseEnd

SpecParse == InitParse /\ [][NextParse]_vars

-----------------------------------------------------------------------------
(* The comment as a sequence of segments: what the properties of the       *)
(* AnnotationParser are stated against.  A tag line is a line whose        *)
(* cleaned text starts with a configured tag; its segment runs up to the   *)
(* line before the next tag line, or to the end of the input.              *)

Tags == config.supportedAnnotations

Cleaned(k) == CleanLine(lines[k])

\* positions in the configured list of the tags the text starts with
MatchingTags(text) == {j \in 1..Len(Tags) : StartsWith(text, Tags[j])}

IsTagLine(k) == MatchingTags(Cleaned(k)) # {}

FirstMatch(text) ==
    CHOOSE j \in MatchingTags(text) : \A i \in MatchingTags(text) : j <= i

TagOf(k) == Tags[FirstMatch(Cleaned(k))]

\* the remainder of tag line k after its tag, trimmed
OwnText(k) == Trim(Substring(Cleaned(k), Len(TagOf(k))))

\* the last line of the segment tag line k opens
SegEnd(k) ==
    LET later == {j \in (k + 1)..Len(lines) : IsTagLine(j)}
    IN  IF later = {} THEN Len(lines)
        ELSE (CHOOSE j \in later : \A i \in later : j <= i) - 1

\* lines a..b, each preceded by a line break
RECURSIVE JoinLines(_, _)
JoinLines(a, b) ==
    IF a > b THEN <<>> ELSE JoinLines(a, b - 1) \o <<"\n">> \o Cleaned(b)

\* what tag line k has accumulated when its segment ends
Accumulated(k) ==
    IF config.multiLineSupport THEN OwnText(k) \o JoinLines(k + 1, SegEnd(k))
    ELSE OwnText(k)

\* the tag lines whose accumulated content is not the empty string, in order
RECURSIVE EmittingFrom(_)
EmittingFrom(k) ==
    IF k > Len(lines) THEN <<>>
    ELSE (IF IsTagLine(k) /\ Accumulated(k) # <<>> THEN <<k>> ELSE <<>>)
         \o EmittingFrom(k + 1)

Emitting == EmittingFrom(1)

Done == pc = "done"

\* the loop is about to look at a line
AtLine == pc = "loop" /\ idx <= Len(lines)

-----------------------------------------------------------------------------
(* Properties of the AnnotationParser *)

\* C1: no annotation parse returns has empty content.
C1_NoEmptyContent ==
    Done => \A j \in 1..Len(annotations) : annotations[j].content # <<>>

\* C4: the tags of the returned annotations are configured tags and are, in
\* order, the tags of tag lines (those whose segment accumulated something);
\* a line that starts with no configured tag contributes no entry.
C4_TagsFilteredInOrder ==
    Done =>
        /\ Len(annotations) = Len(Emitting)
        /\ \A j \in 1..Len(annotations) :
              /\ annotations[j].type = TagOf(Emitting[j])
              /\ \E i \in 1..Len(Tags) : Tags[i] = annotations[j].type

\* a run with one configured tag that returned an annotation for a tag line
\* after the first line and also met a line starting with the other letter
C4_Witness ==
    /\ Done
    /\ Len(annotations) >= 1
    /\ Tags = << <<"p">> >>
    /\ \E k \in 1..Len(lines) : StartsWith(Cleaned(k), <<"t">>)
    /\ \E k \in 1..Len(lines) : IsTagLine(k) /\ k > 1

\* C5: with continuation enabled, the lines of a segment after its tag line
\* (lines starting with an unconfigured tag included) are appended in order,
\* each after a line break; they open no annotation and close none; the
\* returned content is that text trimmed.
C5_ContinuationAppends ==
    (Done /\ config.multiLineSupport) =>
        /\ Len(annotations) = Len(Emitting)
        /\ \A j \in 1..Len(annotations) :
              LET k == Emitting[j]
              IN  annotations[j].content =
                      Trim(OwnText(k) \o JoinLines(k + 1, SegEnd(k)))

\* a run with continuation enabled that returned an annotation whose segment
\* has two lines after the tag line, one of them starting with the
\* unconfigured letter
C5_Witness ==
    /\ Done
    /\ config.multiLineSupport
    /\ Tags = << <<"p">> >>
    /\ \E j \in 1..Len(annotations) :
          LET k == Emitting[j]
          IN  /\ SegEnd(k) >= k + 2
              /\ \E i \in (k + 1)..SegEnd(k) : StartsWith(Cleaned(i), <<"t">>)
              /\ \E i \in 1..Len(annotations[j].content) :
                    annotations[j].content[i] = "\n"

\* C6: isMultiLine is true exactly of the annotations to which at least one
\* line was appended: continuation is enabled and the segment has a line
\* after its tag line.
C6_MultiLineIffAppended ==
    Done =>
        /\ Len(annotations) = Len(Emitting)
        /\ \A j \in 1..Len(annotations) :
              annotations[j].isMultiLine =
                  (config.multiLineSupport /\ SegEnd(Emitting[j]) > Emitting[j])

\* a run that returned one annotation with the flag and one without
C6_Witness ==
    /\ Done
    /\ \E j \in 1..Len(annotations) : annotations[j].isMultiLine
    /\ \E j \in 1..Len(annotations) : ~annotations[j].isMultiLine

\* the parser was made with multiLineSupport: false
ContinuationDisabled == options.multiLineSupport = <<FALSE>>

\* C7: with continuation disabled, a line that starts with no configured tag
\* changes neither the open annotation nor the result, whether or not an
\* annotation is open; every returned annotation has isMultiLine = false and
\* the trimmed remainder of its own tag line as content.
C7_DisabledDiscards ==
    [][/\ (AtLine /\ ContinuationDisabled /\ ~IsTagLine(idx))
            => (currentAnnotation' = currentAnnotation /\ annotations' = annotations)
       /\ (pc' = "done" /\ ContinuationDisabled)
            => /\ Len(annotations') = Len(Emitting)
               /\ \A j \in 1..Len(annotations') :
                     /\ ~annotations'[j].isMultiLine
                     /\ annotations'[j].content = OwnText(Emitting[j])]_vars

\* a run with continuation disabled that met a line with no configured tag
\* while an annotation was open, and returned that annotation
C7_Witness ==
    /\ Done
    /\ ContinuationDisabled
    /\ Len(annotations) >= 1
    /\ \E k \in 1..Len(lines) :
          /\ IsTagLine(k)
          /\ Accumulated(k) # <<>>
          /\ SegEnd(k) > k
          /\ Cleaned(k + 1) # <<>>

\* C9: a line that starts with more than one configured tag opens an
\* annotation whose tag is the first of them in configured order and whose
\* content is the trimmed remainder of the line after that tag.
C9_FirstConfiguredTagWins ==
    [][(AtLine /\ Cardinality(MatchingTags(Cleaned(idx))) > 1)
          => /\ currentAnnotation' # Null
             /\ currentAnnotation'[1].type = Tags[FirstMatch(Cleaned(idx))]
             /\ currentAnnotation'[1].content =
                    Trim(Substring(Cleaned(idx), Len(Tags[FirstMatch(Cleaned(idx))])))]_vars

\* the loop has just passed a line that starts with both configured tags,
\* the longer one configured first, and opened an annotation with text
C9_Witness ==
    /\ pc = "loop"
    /\ idx > 1
    /\ Tags = << <<"p", "t">>, <<"p">> >>
    /\ Cardinality(MatchingTags(Cleaned(idx - 1))) = 2
    /\ currentAnnotation # Null
    /\ currentAnnotation[1].type = <<"p", "t">>
    /\ currentAnnotation[1].content # <<>>

\* C10: a returned annotation has isMultiLine = true only if its content
\* holds a line break.
C10_MultiLineHasLineBreak ==
    Done =>
        \A j \in 1..Len(annotations) :
            annotations[j].isMultiLine =>
                \E i \in 1..Len(annotations[j].content) : annotations[j].content[i] = "\n"

-----------------------------------------------------------------------------
(* Source text and syntax tree, as the TypeScript compiler API exposes them *)

\* most declarations and blocks in a source file
MaxNodes == 3

KwFunction == <<"f", "u", "n", "c", "t", "i", "o", "n">>
ModExport == <<"e", "x", "p", "o", "r", "t", " ">>
ModExportDefault == ModExport \o <<"d", "e", "f", "a", "u", "l", "t", " ">>

TagParam == <<"@", "p", "a", "r", "a", "m">>
TagReturns == <<"@", "r", "e", "t", "u", "r", "n", "s">>
TagThrows == <<"@", "t", "h", "r", "o", "w", "s">>

\* /** @param x */
DocParam == <<"/", "*", "*", " ">> \o TagParam \o <<" ", "x", " ", "*", "/">>

\* a three-line documentation comment, indented by two: /**  * @returns y  */
DocReturns ==
    <<"/", "*", "*", "\n", " ", " ", " ", "*", " ">> \o TagReturns
        \o <<" ", "y", "\n", " ", " ", " ", "*", "/">>

\* /* @throws z */
DocThrows == <<"/", "*", " ">> \o TagThrows \o <<" ", "z", " ", "*", "/">>

\* what a node of the file looks like: its kind, whether it carries a name,
\* its modifiers, and the trivia between the previous token and its first
NodeForms ==
    {[kind |-> "FunctionDeclaration", named |-> TRUE, modifier |-> <<>>,
      lead |-> <<"\n">>],
     [kind |-> "FunctionDeclaration", named |-> TRUE, modifier |-> ModExport,
      lead |-> <<"\n">> \o DocParam \o <<"\n">>],
     [kind |-> "FunctionDeclaration", named |-> TRUE, modifier |-> <<>>,
      lead |-> <<"\n", " ", " ">> \o DocReturns \o <<"\n", " ", " ">>],
     [kind |-> "FunctionDeclaration", named |-> TRUE, modifier |-> <<>>,
      lead |-> <<" ">> \o DocThrows \o <<" ">>],
     [kind |-> "FunctionDeclaration", named |-> FALSE, modifier |-> ModExportDefault,
      lead |-> <<"\n">> \o DocParam \o <<"\n">>],
     [kind |-> "Other", named |-> FALSE, modifier |-> <<>>,
      lead |-> <<"\n", " ", " ">>]}

\* the identifier of the i-th node
NameOf(i) == <<<<"a">>, <<"b">>, <<"c">>, <<"d">>, <<"e">>>>[i]

\* a file: n nodes, each with a parent before it (0 is the file itself) and a
\* form; a function declaration without a name is a default export, which
\* stands at the top level
Files ==
    UNION {{[parent |-> p, form |-> f] :
                p \in {q \in [1..n -> 0..(n - 1)] : \A i \in 1..n : q[i] < i},
                f \in [1..n -> NodeForms]} : n \in 0..MaxNodes}

WellFormed(d) ==
    \A i \in 1..Len(d.parent) :
        (d.form[i].kind = "FunctionDeclaration" /\ ~d.form[i].named) => d.parent[i] = 0

\* the children of node i, left to right
RECURSIVE KidsFrom(_, _, _)
KidsFrom(d, i, j) ==
    IF j > Len(d.parent) THEN <<>>
    ELSE (IF d.parent[j] = i THEN <<j>> ELSE <<>>) \o KidsFrom(d, i, j + 1)

Kids(d, i) == KidsFrom(d, i, 1)

\* the text of a file and the nodes the parser makes of it.  Offsets count
\* from 0: pos is where the node's leading trivia starts (the end of the
\* previous token), firstToken where its first token starts, and name the
\* identifier node after the function keyword.
RECURSIVE RenderNode(_, _, _)
RECURSIVE RenderList(_, _, _)
RenderNode(d, i, text) ==
    LET f == d.form[i]
        isFn == f.kind = "FunctionDeclaration"
        t1 == text \o f.lead
        t2 == IF isFn THEN t1 \o f.modifier \o KwFunction ELSE t1
        t3 == IF isFn /\ f.named THEN t2 \o <<" ">> \o NameOf(i) ELSE t2
        t4 == IF isFn THEN t3 \o <<"(", ")", " ", "{">> ELSE t3 \o <<"{">>
        body == RenderList(d, Kids(d, i), t4)
        t5 == body.text \o <<"}">>
        node == [kind |-> f.kind,
                 pos |-> Len(text),
                 end |-> Len(t5),
                 firstToken |-> Len(t1),
                 name |-> IF isFn /\ f.named
                          THEN <<[pos |-> Len(t2), start |-> Len(t2) + 1, end |-> Len(t3)]>>
                          ELSE Null,
                 children |-> Kids(d, i)]
    IN  [text |-> t5, nodes |-> (i :> node) @@ body.nodes]

RenderList(d, kids, text) ==
    IF kids = <<>> THEN [text |-> text, nodes |-> <<>>]
    ELSE LET a == RenderNode(d, Head(kids), text)
             b == RenderList(d, Tail(kids), a.text)
         IN  [text |-> b.text, nodes |-> a.nodes @@ b.nodes]

\* the file's text
TextOf(d) == RenderList(d, Kids(d, 0), <<>>).text

\* ts.createSourceFile: the tree of the text; node 0 is the SourceFile
createSourceFile(d) ==
    LET r == RenderList(d, Kids(d, 0), <<>>)
        root == [kind |-> "SourceFile", pos |-> 0, end |-> Len(r.text),
                 firstToken |-> 0, name |-> Null, children |-> Kids(d, 0)]
    IN  [text |-> r.text, nodes |-> (0 :> root) @@ r.nodes]

\* the character at offset o (0-based), or "" past the end
CharAt(text, o) == IF o < Len(text) THEN text[o + 1] ELSE ""

\* the offset just past the block comment whose body starts at o
RECURSIVE BlockCommentEnd(_, _)
BlockCommentEnd(text, o) ==
    IF o >= Len(text) THEN o
    ELSE IF CharAt(text, o) = "*" /\ CharAt(text, o + 1) = "/" THEN o + 2
         ELSE BlockCommentEnd(text, o + 1)

\* the offset of the line break that ends the line comment running through o
RECURSIVE LineCommentEnd(_, _)
LineCommentEnd(text, o) ==
    IF o >= Len(text) \/ CharAt(text, o) \in {"\n", "\r"} THEN o
    ELSE LineCommentEnd(text, o + 1)

\* ts.skipTrivia: the offset of the first token at or after o
RECURSIVE SkipTrivia(_, _)
SkipTrivia(text, o) ==
    IF o >= Len(text) THEN o
    ELSE IF CharAt(text, o) \in WhiteSpace THEN SkipTrivia(text, o + 1)
    ELSE IF CharAt(text, o) = "/" /\ CharAt(text, o + 1) = "*"
         THEN SkipTrivia(text, BlockCommentEnd(text, o + 2))
    ELSE IF CharAt(text, o) = "/" /\ CharAt(text, o + 1) = "/"
         THEN SkipTrivia(text, LineCommentEnd(text, o + 2))
    ELSE o

\* ts.getLeadingCommentRanges: the comments between o and the next token;
\* unless o is the start of the file, only those after the first line break
RECURSIVE CommentRangesFrom(_, _, _)
CommentRangesFrom(text, o, collecting) ==
    IF o >= Len(text) THEN <<>>
    ELSE IF CharAt(text, o) \in {"\n", "\r"} THEN CommentRangesFrom(text, o + 1, TRUE)
    ELSE IF CharAt(text, o) \in WhiteSpace THEN CommentRangesFrom(text, o + 1, collecting)
    ELSE IF CharAt(text, o) = "/" /\ CharAt(text, o + 1) \in {"*", "/"}
         THEN LET e == IF CharAt(text, o + 1) = "*"
                       THEN BlockCommentEnd(text, o + 2)
                       ELSE LineCommentEnd(text, o + 2)
              IN  (IF collecting THEN <<[pos |-> o, end |-> e]>> ELSE <<>>)
                  \o CommentRangesFrom(text, e, collecting)
    ELSE <<>>

getLeadingCommentRanges(text, o) == CommentRangesFrom(text, o, o = 0)

\* sourceFile.getLineAndCharacterOfPosition: 0-based line and character
getLineAndCharacterOfPosition(text, o) ==
    LET breaks == {k \in 1..o : text[k] = "\n"}
        lineStart == IF breaks = {} THEN 0
                     ELSE CHOOSE k \in breaks : \A j \in breaks : j <= k
    IN  [line |-> Cardinality(breaks), character |-> o - lineStart]

\* node.getStart()
getStart(sf, node) == SkipTrivia(sf.text, node.pos)

\* node.name.getText()
getText(sf, ident) == SubSeq(sf.text, SkipTrivia(sf.text, ident.pos) + 1, ident.end)

-----------------------------------------------------------------------------
(* TypeScriptParser *)

defaultConfig ==
    [supportedAnnotations |-> <<TagParam, TagReturns, TagThrows>>,
     multiLineSupport |-> TRUE]

\* constructor: { ...this.defaultConfig, ...config }
NewTypeScriptParser(opts) ==
    [supportedAnnotations |->
        IF opts.supportedAnnotations = Null THEN defaultConfig.supportedAnnotations
        ELSE opts.supportedAnnotations[1],
     multiLineSupport |->
        IF opts.multiLineSupport = Null THEN defaultConfig.multiLineSupport
        ELSE opts.multiLineSupport[1]]

\* new ParserError(message, cause); the message is its fixed text and the
\* path put into it
ParserError(text, path, cause) ==
    [name |-> "ParserError", message |-> <<text, path>>, cause |-> cause]

\* the error fs.readFile (or the decoding of its buffer) fails with
ReadError(code, path) ==
    [name |-> "Error", message |-> <<code, path>>, cause |-> Null]

\* error instanceof Error ? error : undefined
CauseOf(error) ==
    IF error.name \in {"Error", "ParserError"} THEN <<error>> ELSE Null

\* the catch of readFile
readFileCatch(path, error) ==
    ParserError("readFile failed", path, CauseOf(error))

\* a slip in the catch of parseFunctionSignatures: the cause is not passed on
parseFunctionSignaturesCatchNoCause(path, error) ==
    ParserError("parseFunctionSignatures failed", path, Null)

\* the catch of parseFunctionSignatures
parseFunctionSignaturesCatch(path, error) ==
    ParserError("parseFunctionSignatures failed", path, CauseOf(error))

\* comments.map(comment => text.substring(comment.pos, comment.end)).join('\n')
RECURSIVE JoinComments(_, _)
JoinComments(text, ranges) ==
    IF ranges = <<>> THEN <<>>
    ELSE LET first == SubSeq(text, ranges[1].pos + 1, ranges[1].end)
         IN  IF Len(ranges) = 1 THEN first
             ELSE first \o <<"\n">> \o JoinComments(text, Tail(ranges))

getLeadingComments(text, o) == JoinComments(text, getLeadingCommentRanges(text, o))

\* if (!comments) return []; else new AnnotationParser(this.config).parse(comments)
parseAnnotations(cfg, cmts) ==
    IF cmts = <<>> THEN <<>>
    ELSE parse(NewAnnotationParser([supportedAnnotations |-> <<cfg.supportedAnnotations>>,
                                    multiLineSupport |-> <<cfg.multiLineSupport>>]),
               cmts)

\* a slip in processFunctionDeclaration: node.getFullStart() for the position
LocationOffsetFullStart(sf, node) == node.pos

\* the position processFunctionDeclaration reports
LocationOffset(sf, node) == getStart(sf, node)

\* Null for a node without a name, else <<FunctionMetadata>>
processFunctionDeclaration(cfg, sf, node) ==
    IF node.name = Null THEN Null
    ELSE LET lc == getLineAndCharacterOfPosition(sf.text, LocationOffset(sf, node))
             cmts == getLeadingComments(sf.text, node.pos)
         IN  <<[name |-> getText(sf, node.name[1]),
                annotations |-> parseAnnotations(cfg, cmts),
                location |-> [line |-> lc.line + 1, column |-> lc.character + 1]]>>

\* visit(node), up to the recursion into the children: the functions array
\* after it
VisitNode(cfg, sf, node, fns) ==
    IF node.kind = "FunctionDeclaration" /\ node.name # Null
    THEN fns \o processFunctionDeclaration(cfg, sf, node)
    ELSE fns

\* a slip in the walk: the children are visited after what was still to visit
VisitOrderBreadthFirst(children, rest) == rest \o children

\* ts.forEachChild(node, visit): the children are visited, left to right, each
\* with all below it, before anything that was still to visit
VisitOrder(children, rest) == children \o rest

-----------------------------------------------------------------------------
(* Inputs of the TypeScriptParser run *)

Paths == {"sample.ts", "other.ts"}

\* why the read can fail: no such file, no permission, unknown encoding
ReadFailures == {"ENOENT", "EACCES", "ERR_UNKNOWN_ENCODING"}

DriverOptionSet ==
    {[supportedAnnotations |-> Null, multiLineSupport |-> Null],
     [supportedAnnotations |-> << <<TagParam>> >>, multiLineSupport |-> <<FALSE>>]}

Disks ==
    {[code |-> "OK", file |-> d] : d \in {f \in Files : WellFormed(f)}}
        \cup {[code |-> c, file |-> <<>>] : c \in ReadFailures}

\* the calls looked at: every readable file under either configuration, and
\* every failure of the read under either path
Calls ==
    {[options |-> o, filePath |-> "sample.ts", disk |-> d] :
        o \in DriverOptionSet, d \in {x \in Disks : x.code = "OK"}}
    \cup
    {[options |-> [supportedAnnotations |-> Null, multiLineSupport |-> Null],
      filePath |-> q, disk |-> d] :
        q \in Paths, d \in {x \in Disks : x.code # "OK"}}

Init ==
    /\ \E c \in Calls :
          /\ options = c.options
          /\ filePath = c.filePath
          /\ disk = c.disk
    /\ comments = <<>>
    /\ config = NoConfig
    /\ lines = <<>>
    /\ idx = 0
    /\ currentAnnotation = Null
    /\ annotations = <<>>
    /\ pc = "idle"
    /\ fileContent = <<>>
    /\ sourceFile = Null
    /\ pending = <<>>
    /\ functions = <<>>
    /\ thrown = Null
    /\ returned = Null
    /\ tpc = "new"

\* new TypeScriptParser(options)
ConstructParser ==
    /\ tpc = "new"
    /\ config' = NewTypeScriptParser(options)
    /\ tpc' = "start"
    /\ UNCHANGED <<options, comments, lines, idx, currentAnnotation, annotations, pc>>
    /\ UNCHANGED <<filePath, disk, fileContent, sourceFile, pending, functions, thrown, returned>>

\* parseFunctionSignatures(filePath): readFile resolves with the decoded content
ReadFileOk ==
    /\ tpc = "start"
    /\ disk.code = "OK"
    /\ fileContent' = TextOf(disk.file)
    /\ tpc' = "read"
    /\ UNCHANGED parserVars
    /\ UNCHANGED <<filePath, disk, sourceFile, pending, functions, thrown, returned>>

\* readFile fails: its catch wraps the error and throws again
ReadFileFail ==
    /\ tpc = "start"
    /\ disk.code # "OK"
    /\ thrown' = <<readFileCatch(filePath, ReadError(disk.code, filePath))>>
    /\ tpc' = "catch"
    /\ UNCHANGED parserVars
    /\ UNCHANGED <<filePath, disk, fileContent, sourceFile, pending, functions, returned>>

\* the catch of parseFunctionSignatures: wrap what was thrown, and reject
Catch ==
    /\ tpc = "catch"
    /\ thrown' = <<parseFunctionSignaturesCatch(filePath, thrown[1])>>
    /\ tpc' = "rejected"
    /\ UNCHANGED parserVars
    /\ UNCHANGED <<filePath, disk, fileContent, sourceFile, pending, functions, returned>>

\* createSourceFile, and extractFunctions up to visit(sourceFile)
CreateSourceFile ==
    /\ tpc = "read"
    /\ sourceFile' = <<createSourceFile(disk.file)>>
    /\ functions' = <<>>
    /\ pending' = <<0>>
    /\ tpc' = "walk"
    /\ UNCHANGED parserVars
    /\ UNCHANGED <<filePath, disk, fileContent, thrown, returned>>

\* visit(node) for the next node of the walk
Visit ==
    /\ tpc = "walk"
    /\ pending # <<>>
    /\ LET sf == sourceFile[1]
           node == sf.nodes[Head(pending)]
       IN  /\ functions' = VisitNode(config, sf, node, functions)
           /\ pending' = VisitOrder(node.children, Tail(pending))
    /\ UNCHANGED parserVars
    /\ UNCHANGED <<filePath, disk, fileContent, sourceFile, thrown, returned, tpc>>

\* the walk is over: extractFunctions returns, the promise resolves
Return ==
    /\ tpc = "walk"
    /\ pending = <<>>
    /\ returned' = <<functions>>
    /\ tpc' = "resolved"
    /\ UNCHANGED parserVars
    /\ UNCHANGED <<filePath, disk, fileContent, sourceFile, pending, functions, thrown>>

Next ==
    \/ ConstructParser
    \/ ReadFileOk
    \/ ReadFileFail
    \/ Catch
    \/ CreateSourceFile
    \/ Visit
    \/ Return

Spec == Init /\ [][Next]_vars

-----------------------------------------------------------------------------
(* Properties of the TypeScriptParser *)

Resolved == tpc = "resolved"

\* the 1-based line and column of offset o: one more than the line breaks
\* before it, and one more than the characters before it on its own line
LineColumn(text, o) ==
    [line |-> 1 + Cardinality({k \in 1..o : text[k] = "\n"}),
     column |-> 1 + Cardinality({k \in 1..o : \A j \in k..o : text[j] # "\n"})]

\* the function declarations of the file that carry a name
NamedFunctions ==
    {i \in DOMAIN sourceFile[1].nodes :
        /\ sourceFile[1].nodes[i].kind = "FunctionDeclaration"
        /\ sourceFile[1].nodes[i].name # Null}

\* the declaration a returned entry stands for: the one with its name
DeclarationOf(entry) ==
    sourceFile[1].nodes[CHOOSE i \in NamedFunctions : NameOf(i) = entry.name]

\* the trivia before a declaration's first token holds no comment
Undocumented(node) ==
    \A o \in node.pos..(node.firstToken - 1) : CharAt(sourceFile[1].text, o) # "/"

C3_CauseIsReadError ==
    /\ disk.code # "OK" => returned = Null
    /\ (tpc = "rejected") =>
          /\ thrown[1].name = "ParserError"
          /\ thrown[1].message[2] = filePath
          /\ thrown[1].cause = <<ReadError(disk.code, filePath)>>

\* C3 as amended: a failed read never yields a metadata list; the call fails
\* with a ParserError that names the path and whose cause is the ParserError
\* of readFile, which names the path too and has the read error as its cause.
C3_CauseChainKeepsReadError ==
    /\ disk.code # "OK" => (returned = Null /\ tpc \in {"new", "start", "catch", "rejected"})
    /\ (tpc = "rejected") =>
          /\ disk.code # "OK"
          /\ thrown[1].name = "ParserError"
          /\ thrown[1].message[2] = filePath
          /\ thrown[1].cause # Null
          /\ thrown[1].cause[1].name = "ParserError"
          /\ thrown[1].cause[1].message[2] = filePath
          /\ thrown[1].cause[1].cause = <<ReadError(disk.code, filePath)>>

\* the call was rejected for a file that does not exist
C3_Witness ==
    /\ tpc = "rejected"
    /\ disk.code = "ENOENT"
    /\ thrown # Null

\* C8: the result has one entry per function declaration with a name, nested
\* ones too and no other, in the order of the text; an entry whose
\* declaration has no comment before it has no annotations.
C8_OnePerNamedFunctionInOrder ==
    Resolved =>
        /\ Len(returned[1]) = Cardinality(NamedFunctions)
        /\ \A i \in NamedFunctions :
              \E j \in 1..Len(returned[1]) : returned[1][j].name = NameOf(i)
        /\ \A j \in 1..Len(returned[1]) :
              \E i \in NamedFunctions : returned[1][j].name = NameOf(i)
        /\ \A j, k \in 1..Len(returned[1]) :
              j < k => DeclarationOf(returned[1][j]).firstToken
                          < DeclarationOf(returned[1][k]).firstToken
        /\ \A j \in 1..Len(returned[1]) :
              Undocumented(DeclarationOf(returned[1][j]))
                  => returned[1][j].annotations = <<>>

\* a result for a file with a declaration without a name, which is left out,
\* and a nested declaration with no comment, standing in the text before a
\* declaration made before it, which is in the result with no annotations
C8_Witness ==
    /\ Resolved
    /\ \E i \in DOMAIN sourceFile[1].nodes :
          /\ sourceFile[1].nodes[i].kind = "FunctionDeclaration"
          /\ sourceFile[1].nodes[i].name = Null
    /\ \E j \in 1..Len(returned[1]) :
          /\ Undocumented(DeclarationOf(returned[1][j]))
          /\ returned[1][j].annotations = <<>>
          /\ returned[1][j].location.line > 1
          /\ disk.file.parent[CHOOSE i \in NamedFunctions : NameOf(i) = returned[1][j].name] # 0
    /\ Len(returned[1]) >= 2

=============================================================================
